---- MODULE Spec2Model ----
(***************************************************************************)
(* State-machine model of open_dread_rando/dread_patcher.py: the           *)
(* PatcherEditor resource cache, the warp (elevator) patcher, the pickup   *)
(* patcher and the patch() pipeline that sequences them.                   *)
(***************************************************************************)
EXTENDS Integers, Sequences, FiniteSets, TLC

\* ------------------------------------------------------------------ bounds
\* Longest "elevators" list of a configuration.
MaxElevators == 2
\* Longest "pickups" list of a configuration.
MaxPickups == 2
\* Largest configured pickup quantity.
MaxQuantity == 2

\* ------------------------------------------------------------------- paths
path_for_level(level_name) ==
    "maps/levels/c10_samus/" \o level_name \o "/" \o level_name

\* The path PatcherEditor.get_scenario hands to get_file.
ScenarioPath(name) == path_for_level(name) \o ".brfld"

InitPath == "system/scripts/init.lc"
OriginalInitPath == "system/scripts/original_init.lc"
PowerupLuaPath == "actors/items/randomizer_powerup/scripts/randomizer_powerup.lc"

\* i is the 0-based index enumerate() gives.
PowerupName(i) == "randomizer_powerup_" \o ToString(i)
\* One path for every synthesized definition.
PowerupPath_unindexed(i) ==
    "actors/items/randomizer_powerup/charclasses/randomizer_powerup.bmsad"

PowerupPath(i) ==
    "actors/items/randomizer_powerup/charclasses/randomizer_powerup_"
        \o ToString(i) \o ".bmsad"
ActorDefLink(new_path) == "actordef:" \o new_path

model_dependencies ==
    << "actors/items/itemsphere/animations/relax.bcskla",
       "actors/items/itemsphere/charclasses/timeline.bmsas",
       "actors/items/itemsphere/collisions/itemsphere.bmscd",
       "actors/items/itemsphere/fx/impact.bcptl",
       "actors/items/itemsphere/fx/impact_itemsphere.bcmdl",
       "actors/items/itemsphere/fx/impact_itemsphere.bcskla",
       "actors/items/itemsphere/fx/imats/impact_itemsphere_itemsphere.bsmat",
       "actors/items/itemsphere/models/itemsphere.bcmdl",
       "actors/items/itemsphere/models/imats/itemsphere_mp_opaque_01.bsmat" >>

\* Every path the dependency loop of patch_pickups hands to ensure_present.
PickupDependencies ==
    {"system/animtrees/base.bmsat",
     "actors/items/itemsphere/charclasses/timeline.bmsas"}
        \cup {model_dependencies[k] : k \in DOMAIN model_dependencies}

\* --------------------------------------------------- the input asset tree
\* A small packaged tree: two scenes, four container groups (pkgs).
Scenarios == {"s010_cave", "s020_magma"}

Usable(scenario, spawn) ==
    [sScenarioName |-> scenario, sTargetSpawnPoint |-> spawn,
     sUsableEntity |-> "elevator_platform"]

TeleporterActor(scenario, spawn) ==
    [oActorDefLink |-> "actordef:actors/props/teleporter/charclasses/teleporter.bmsad",
     pComponents |-> ("USABLE" :> Usable(scenario, spawn))
                         @@ ("MODELUPDATER" :> [sModel |-> "teleporter"])]

ItemActor(withLife) ==
    [oActorDefLink |-> "actordef:actors/items/item_energytank/charclasses/item_energytank.bmsad",
     pComponents |-> IF withLife
                     THEN ("LIFE" :> [fMaxLife |-> "tank"])
                              @@ ("PICKABLE" :> [sOnPickFX |-> "pick"])
                     ELSE ("PICKABLE" :> [sOnPickFX |-> "pick"])]

\* A parsed scene (Brfld): layer name -> actor name -> actor record.
DiskScene(name) ==
    IF name = "s010_cave"
    THEN ("default" :> (("elevator_a" :> TeleporterActor("s020_magma", "elevator_b"))
                            @@ ("item_tank" :> ItemActor(TRUE))))
             @@ ("cutscene" :> ("item_hidden" :> ItemActor(FALSE)))
    ELSE ("default" :> (("elevator_b" :> TeleporterActor("s010_cave", "elevator_a"))
                            @@ ("item_missile" :> ItemActor(TRUE))))

OriginalInitScript == [kind |-> "lc", code |-> "original init.lc"]

\* The assets of the input tree; with hasBackup the tree was patched before
\* and already holds the backup of the init script.
DiskAssets(hasBackup) ==
    LET base == (InitPath :> OriginalInitScript)
                    @@ [p \in {ScenarioPath(s) : s \in Scenarios} |->
                           [kind |-> "brfld",
                            data |-> DiskScene(CHOOSE s \in Scenarios : ScenarioPath(s) = p)]]
                    @@ [p \in PickupDependencies |-> [kind |-> "raw", code |-> p]]
    IN  IF hasBackup
        THEN (OriginalInitPath :> [kind |-> "lc", code |-> "backup of an earlier run"]) @@ base
        ELSE base

\* Container-group membership of the input tree: pkg -> the paths it holds.
DiskPkgs(hasBackup) ==
    ("packs/cave.pkg" :> {ScenarioPath("s010_cave"), "system/animtrees/base.bmsat"})
        @@ ("packs/magma.pkg" :> {ScenarioPath("s020_magma")})
        @@ ("packs/common.pkg" :>
                ({ScenarioPath("s010_cave"), InitPath}
                     \cup (IF hasBackup THEN {OriginalInitPath} ELSE {})))
        @@ ("packs/items.pkg" :> PickupDependencies)

\* ---------------------------------------------------------- configuration
Teleporter(scenario, layer, actor) ==
    [scenario |-> scenario, layer |-> layer, actor |-> actor]

Elevator(teleporter, dScenario, dActor) ==
    [teleporter |-> teleporter,
     destination |-> [scenario |-> dScenario, actor |-> dActor]]

\* Warp-edit records: two edits of elevator_a (one restating its destination,
\* one changing it), one of elevator_b, an actor that is no teleporter and
\* an actor that does not exist.
ElevatorRecords ==
    { Elevator(Teleporter("s010_cave", "default", "elevator_a"), "s020_magma", "elevator_b"),
      Elevator(Teleporter("s010_cave", "default", "elevator_a"), "s010_cave", "elevator_a"),
      Elevator(Teleporter("s020_magma", "default", "elevator_b"), "s020_magma", "elevator_b"),
      Elevator(Teleporter("s010_cave", "default", "item_tank"), "s020_magma", "elevator_b"),
      Elevator(Teleporter("s020_magma", "default", "no_such_actor"), "s010_cave", "elevator_a") }

ItemIds ==
    {"ITEM_ENERGY_TANKS", "ITEM_WEAPON_MISSILE_MAX",
     "ITEM_WEAPON_POWER_BOMB_MAX", "ITEM_FLOOR_SLIDE"}

Quantities == 0 .. MaxQuantity

Pickup(ref, item_id, quantity, caption) ==
    [pickup_actor |-> ref, item_id |-> item_id,
     quantity |-> quantity, caption |-> caption]

PickupActors ==
    { Teleporter("s010_cave", "default", "item_tank"),
      Teleporter("s010_cave", "cutscene", "item_hidden"),
      Teleporter("s020_magma", "default", "item_missile"),
      Teleporter("s010_cave", "default", "elevator_a"),
      Teleporter("s020_magma", "default", "no_such_actor") }

\* Pickup records that vary the target actor.
PickupRecordsByActor ==
    {Pickup(a, "ITEM_ENERGY_TANKS", 1, "Energy Tank acquired.") : a \in PickupActors}
        \cup {Pickup(a, "ITEM_WEAPON_MISSILE_MAX", MaxQuantity, "Missile Tank acquired.") :
                  a \in PickupActors}

\* Pickup records that vary the item and the quantity, on one actor.
PickupRecordsByItem ==
    {Pickup(Teleporter("s010_cave", "default", "item_tank"), id, q, "Got " \o id) :
         id \in ItemIds, q \in Quantities}

SeqsUpTo(S, n) == UNION {[1 .. k -> S] : k \in 0 .. n}

Config(hasElevators, elevators, pickups) ==
    [has_elevators |-> hasElevators,
     elevators |-> elevators,
     pickups |-> pickups,
     starting_items |-> <<[key |-> "ITEM_WEAPON_MISSILE_MAX", value |-> 15]>>,
     starting_location |-> [scenario |-> "s010_cave", actor |-> "elevator_a"]]

\* Configurations rich in warp edits.
WarpConfigs ==
    {Config(TRUE, e, p) :
         e \in SeqsUpTo(ElevatorRecords, MaxElevators),
         p \in {<<>>,
                <<Pickup(Teleporter("s010_cave", "default", "item_tank"),
                         "ITEM_ENERGY_TANKS", 1, "Energy Tank acquired.")>>}}

\* Configurations rich in pickup targets, with and without the optional
\* "elevators" key.
PickupActorConfigs ==
    {Config(FALSE, <<>>, p) : p \in SeqsUpTo(PickupRecordsByActor, MaxPickups)}
        \cup {Config(TRUE, <<e>>, p) :
                  e \in {Elevator(Teleporter("s010_cave", "default", "elevator_a"),
                                  "s010_cave", "elevator_a")},
                  p \in SeqsUpTo(PickupRecordsByActor, MaxPickups)}

\* Configurations rich in item ids and quantities.
PickupItemConfigs ==
    {Config(FALSE, <<>>, p) : p \in SeqsUpTo(PickupRecordsByItem, MaxPickups)}

Configurations == WarpConfigs \cup PickupActorConfigs \cup PickupItemConfigs

\* ------------------------------------------------------------------- state
VARIABLES
    pc,              \* the statement of patch() that runs next
    configuration,   \* the configuration argument of patch()
    schema_ok,       \* whether jsonschema.validate accepts the configuration
    assets,          \* FileTreeEditor: path -> content, as the editor sees it
    pkgs,            \* FileTreeEditor: pkg -> paths the pkg holds
    memory_files,    \* PatcherEditor.memory_files: path -> instance
    instances,       \* the parsed instances, by identity (index)
    parse_log,       \* paths handed to get_parsed_asset, in call order
    get_log,         \* <<path, instance>> returned by get_file, in call order
    repo_log,        \* add_new_asset / replace_asset calls, in call order
    loop_i,          \* position of the running for loop (1-based)
    template_bmsad,  \* patch_pickups: the loaded template
    pkgs_for_lua,    \* patch_pickups: the accumulator of container groups
    error,           \* the exception that ended the run, if any
    stages,          \* stages of patch() entered so far, in order
    out_exists,      \* whether output_path/romfs exists
    out_romfs,       \* output_path/romfs: file -> content
    out_before,      \* output_path/romfs as it was when patch() was called
    repo_fault,      \* the stage whose repository call raises, or "none"
    disk,            \* the tree at input_path: [assets, pkgs]
    hash_seed,       \* the hash seed of the process: fixes the order of a set of str
    run,             \* 1 for the first call of patch(), 2 for a repeated call
    first            \* what the first call left, once a repeated call has begun

vars ==
    << pc, configuration, schema_ok, assets, pkgs, memory_files, instances,
       parse_log, get_log, repo_log, loop_i, template_bmsad, pkgs_for_lua,
       error, stages, out_exists, out_romfs, out_before, repo_fault, disk,
                    hash_seed, run, first >>

NoError == [type |-> "none"]

\* The hash seeds told apart: str hashes are salted per process, so the order
\* in which a set of str is iterated differs from one process to another.
HashSeeds == {0, 1}

\* No earlier call of patch().
NoRun == [repo_log |-> <<>>, assets |-> << >>, pkgs |-> << >>, out_romfs |-> << >>]
\* An error of a repository call (a lookup or parse error of FileTreeEditor).
RepositoryError == [type |-> "RepositoryError"]
NoTemplate == [name |-> "not loaded"]

OldRomfs == ("packs/stale.pkg" :> [kind |-> "raw", code |-> "previous export"])
EmptyMap == <<>>

\* ------------------------------------------- the repository (FileTreeEditor)
does_asset_exists(a, path) == path \in DOMAIN a

find_pkgs(p, path) == {g \in DOMAIN p : path \in p[g]}

\* The membership after add_new_asset(path, ..., in_pkgs).
add_to_pkgs(p, path, in_pkgs) ==
    [g \in DOMAIN p |-> IF g \in in_pkgs THEN p[g] \cup {path} ELSE p[g]]

put_asset(a, path, content) ==
    [q \in DOMAIN a \cup {path} |-> IF q = path THEN content ELSE a[q]]

\* get_parsed_asset: a fresh parsed object built from the asset's content.
get_parsed_asset(a, path) == a[path].data

AddCall(path, in_pkgs) == [op |-> "add_new_asset", path |-> path, in_pkgs |-> in_pkgs]
ReplaceCall(path) == [op |-> "replace_asset", path |-> path, in_pkgs |-> {}]

\* -------------------------------------------------------- PatcherEditor
\* get_file without the test of memory_files: every call parses.
get_file_always_parses(a, mf, insts, path) ==
    [memory_files |-> [q \in DOMAIN mf \cup {path} |->
                          IF q = path THEN Len(insts) + 1 ELSE mf[q]],
     instances |-> Append(insts, get_parsed_asset(a, path)),
     parsed |-> TRUE, result |-> Len(insts) + 1]

\* get_file: what the call leaves in memory_files and on the heap, whether it
\* parsed, and the instance it returns.
get_file(a, mf, insts, path) ==
    IF path \in DOMAIN mf
    THEN [memory_files |-> mf, instances |-> insts,
          parsed |-> FALSE, result |-> mf[path]]
    ELSE [memory_files |-> (path :> (Len(insts) + 1)) @@ mf,
          instances |-> Append(insts, get_parsed_asset(a, path)),
          parsed |-> TRUE, result |-> Len(insts) + 1]

\* get_scenario reading the repository instead of the cache.
get_scenario_uncached(a, mf, insts, name) ==
    get_file_always_parses(a, mf, insts, ScenarioPath(name))

get_scenario(a, mf, insts, name) == get_file(a, mf, insts, ScenarioPath(name))

\* level.actors_for_layer(layer)[actor] finds an actor.
HasActor(level, ref) ==
    /\ ref.layer \in DOMAIN level
    /\ ref.actor \in DOMAIN level[ref.layer]

\* The logs of one get_file call.
LogGet(path, got) ==
    /\ parse_log' = IF got.parsed THEN Append(parse_log, path) ELSE parse_log
    /\ get_log' = Append(get_log, <<path, got.result>>)

\* An exception of a patcher loop that is logged and swallowed: patch() goes
\* on to the commit.
Raise_swallowed(err) ==
    /\ pc' = IF pc \in {"patch_elevators", "pickups_loop"} THEN "flush" ELSE "failed"
    /\ error' = err

\* An exception leaves patch(): nothing after the raising statement runs.
Raise(err) ==
    /\ pc' = "failed"
    /\ error' = err

\* ----------------------------------------------------------- Script Injector
RECURSIVE JoinInventory(_)
JoinInventory(items) ==
    IF items = <<>> THEN ""
    ELSE LET line == items[1].key \o " = " \o ToString(items[1].value) \o ","
         IN  IF Len(items) = 1 THEN line
             ELSE line \o "\n" \o JoinInventory(Tail(items))

Wrap(v) == "\"" \o v \o "\""

create_custom_init(inventory, starting_location) ==
    [kind |-> "lc",
     code |-> [template |-> "custom_init.lua",
               new_game_inventory |-> JoinInventory(inventory),
               starting_scenario |-> Wrap(starting_location.scenario),
               starting_actor |-> Wrap(starting_location.actor)]]

\* ------------------------------------------------------------------ patch()
Init ==
    /\ pc = "validate"
    /\ configuration \in Configurations
    /\ \E hasBackup \in BOOLEAN :
           /\ disk = [assets |-> DiskAssets(hasBackup), pkgs |-> DiskPkgs(hasBackup)]
           /\ hasBackup => Len(configuration.elevators) + Len(configuration.pickups) <= 1
    /\ schema_ok \in BOOLEAN
    /\ ~schema_ok => Len(configuration.elevators) + Len(configuration.pickups) <= 1
    /\ \E prior \in {"absent", "empty", "old"} :
           /\ out_exists = (prior # "absent")
           /\ out_romfs = IF prior = "old" THEN OldRomfs ELSE EmptyMap
           /\ out_before = [exists |-> out_exists, romfs |-> out_romfs]
           /\ prior # "old" => Len(configuration.elevators) + Len(configuration.pickups) <= 1
    /\ repo_fault \in {"none", "create_init_copy", "replace_init", "flush"}
    /\ repo_fault # "none" => Len(configuration.elevators) + Len(configuration.pickups) <= 1
    /\ assets = EmptyMap
    /\ pkgs = EmptyMap
    /\ memory_files = EmptyMap
    /\ instances = <<>>
    /\ parse_log = <<>>
    /\ get_log = <<>>
    /\ repo_log = <<>>
    /\ loop_i = 1
    /\ template_bmsad = NoTemplate
    /\ pkgs_for_lua = {}
    /\ error = NoError
    /\ stages = <<>>
    /\ hash_seed \in HashSeeds
    /\ hash_seed # 0 =>
           /\ Len(configuration.elevators) + Len(configuration.pickups) <= 1
           /\ schema_ok /\ repo_fault = "none" /\ out_exists
    /\ run = 1
    /\ first = NoRun

\* jsonschema.validate(instance=configuration, schema=_read_schema())
Validate ==
    /\ pc = "validate"
    /\ stages' = Append(stages, "validate")
    /\ IF schema_ok
       THEN pc' = "open" /\ UNCHANGED error
       ELSE Raise([type |-> "ValidationError"])
    /\ UNCHANGED << configuration, schema_ok, assets, pkgs, memory_files, instances,
                    parse_log, get_log, repo_log, loop_i, template_bmsad,
                    pkgs_for_lua, out_exists, out_romfs, out_before, repo_fault, disk,
                    hash_seed, run, first >>

\* editor = PatcherEditor(input_path): the editor reads the tree, the cache
\* starts empty.
OpenEditor ==
    /\ pc = "open"
    /\ stages' = Append(stages, "open")
    /\ assets' = disk.assets
    /\ pkgs' = disk.pkgs
    /\ memory_files' = EmptyMap
    /\ pc' = "create_init_copy"
    /\ UNCHANGED << configuration, schema_ok, instances, parse_log, get_log,
                    repo_log, loop_i, template_bmsad, pkgs_for_lua, error,
                    out_exists, out_romfs, out_before, repo_fault, disk,
                    hash_seed, run, first >>

\* A copy is made whether or not the backup is already there.
NeedsInitCopy_always(a) == TRUE

\* if not editor.does_asset_exists("system/scripts/original_init.lc")
NeedsInitCopy(a) == ~does_asset_exists(a, OriginalInitPath)

\* create_init_copy(editor)
create_init_copy ==
    /\ pc = "create_init_copy"
    /\ stages' = Append(stages, "create_init_copy")
    /\ IF NeedsInitCopy(assets)
       THEN IF repo_fault = "create_init_copy"
            THEN /\ Raise(RepositoryError)
                 /\ UNCHANGED << assets, pkgs, repo_log >>
            ELSE LET original_lc == assets[InitPath]
                     in_pkgs == find_pkgs(pkgs, InitPath)
                 IN  /\ assets' = put_asset(assets, OriginalInitPath, original_lc)
                     /\ pkgs' = add_to_pkgs(pkgs, OriginalInitPath, in_pkgs)
                     /\ repo_log' = Append(repo_log, AddCall(OriginalInitPath, in_pkgs))
                     /\ pc' = "replace_init"
                     /\ UNCHANGED error
       ELSE /\ pc' = "replace_init"
            /\ UNCHANGED << assets, pkgs, repo_log, error >>
    /\ UNCHANGED << configuration, schema_ok, memory_files, instances, parse_log,
                    get_log, loop_i, template_bmsad, pkgs_for_lua,
                    out_exists, out_romfs, out_before, repo_fault, disk,
                    hash_seed, run, first >>

\* The warp patcher run whatever the keys of the configuration.
StageAfterInit_always_elevators(c) == "patch_elevators"

\* if "elevators" in configuration: patch_elevators(...); then patch_pickups(...)
StageAfterInit(c) == IF c.has_elevators THEN "patch_elevators" ELSE "patch_pickups"

\* editor.replace_asset("system/scripts/init.lc", create_custom_init(...)),
\* then the test of the optional "elevators" key.
ReplaceInit ==
    /\ pc = "replace_init"
    /\ stages' = Append(stages, "replace_init")
    /\ IF repo_fault = "replace_init"
       THEN /\ Raise(RepositoryError)
            /\ UNCHANGED << assets, repo_log >>
       ELSE /\ assets' = put_asset(assets, InitPath,
                                   create_custom_init(configuration.starting_items,
                                                      configuration.starting_location))
            /\ repo_log' = Append(repo_log, ReplaceCall(InitPath))
            /\ pc' = StageAfterInit(configuration)
            /\ UNCHANGED error
    /\ loop_i' = 1
    /\ UNCHANGED << configuration, schema_ok, pkgs, memory_files, instances,
                    parse_log, get_log, template_bmsad, pkgs_for_lua,
                    out_exists, out_romfs, out_before, repo_fault, disk,
                    hash_seed, run, first >>

\* ----------------------------------------------------------- patch_elevators
\* usable.sScenarioName = ...; usable.sTargetSpawnPoint = ...
\* The USABLE component rebuilt from the destination alone.
SetDestination_rebuilds_component(actor, destination) ==
    [actor EXCEPT !.pComponents["USABLE"] =
                      [sScenarioName |-> destination.scenario,
                       sTargetSpawnPoint |-> destination.actor]]

SetDestination(actor, destination) ==
    [actor EXCEPT !.pComponents["USABLE"].sScenarioName = destination.scenario,
                  !.pComponents["USABLE"].sTargetSpawnPoint = destination.actor]

\* The error naming the destination of the record instead of its actor.
NotTeleporterError_names_destination(elevator) ==
    [type |-> "ValueError", ref |-> elevator.destination]

\* ValueError(f'Actor {elevator["teleporter"]} is not a teleporter')
NotTeleporterError(elevator) ==
    [type |-> "ValueError", ref |-> elevator.teleporter]

\* The warp edit done on a cache that forgot the scenes it held.
WarpStep_forgets_cache(a, mf, insts, elevator) ==
    LET ref == elevator.teleporter
        got == get_scenario(a, EmptyMap, insts, ref.scenario)
    IN  [memory_files |-> got.memory_files,
         instances |-> [got.instances EXCEPT ![got.result][ref.layer][ref.actor] =
                            SetDestination(@, elevator.destination)]]

\* The cache after the body of the loop of patch_elevators for a record whose
\* actor is a teleporter: the scene is fetched and its actor edited in place.
WarpStep(a, mf, insts, elevator) ==
    LET ref == elevator.teleporter
        got == get_scenario(a, mf, insts, ref.scenario)
    IN  [memory_files |-> got.memory_files,
         instances |-> [got.instances EXCEPT ![got.result][ref.layer][ref.actor] =
                            SetDestination(@, elevator.destination)]]

\* One iteration of the for loop of patch_elevators.
PatchElevator ==
    /\ pc = "patch_elevators"
    /\ loop_i <= Len(configuration.elevators)
    /\ stages' = IF loop_i = 1 THEN Append(stages, "patch_elevators") ELSE stages
    /\ LET elevator == configuration.elevators[loop_i]
           ref == elevator.teleporter
           got == get_scenario(assets, memory_files, instances, ref.scenario)
           level == got.instances[got.result]
       IN  /\ LogGet(ScenarioPath(ref.scenario), got)
           /\ IF ~HasActor(level, ref)
              THEN /\ memory_files' = got.memory_files
                   /\ instances' = got.instances
                   /\ Raise([type |-> "KeyError", ref |-> ref])
                   /\ UNCHANGED loop_i
              ELSE IF "USABLE" \notin DOMAIN level[ref.layer][ref.actor].pComponents
              THEN /\ memory_files' = got.memory_files
                   /\ instances' = got.instances
                   /\ Raise(NotTeleporterError(elevator))
                   /\ UNCHANGED loop_i
              ELSE /\ memory_files' =
                          WarpStep(assets, memory_files, instances, elevator).memory_files
                   /\ instances' =
                          WarpStep(assets, memory_files, instances, elevator).instances
                   /\ loop_i' = loop_i + 1
                   /\ UNCHANGED << pc, error >>
    /\ UNCHANGED << configuration, schema_ok, assets, pkgs, repo_log,
                    template_bmsad, pkgs_for_lua, out_exists, out_romfs, out_before, repo_fault, disk,
                    hash_seed, run, first >>

\* The for loop of patch_elevators is exhausted; patch() goes on.
PatchElevatorsReturn ==
    /\ pc = "patch_elevators"
    /\ loop_i > Len(configuration.elevators)
    /\ stages' = IF loop_i = 1 THEN Append(stages, "patch_elevators") ELSE stages
    /\ pc' = "patch_pickups"
    /\ loop_i' = 1
    /\ UNCHANGED << configuration, schema_ok, assets, pkgs, memory_files, instances,
                    parse_log, get_log, repo_log, template_bmsad, pkgs_for_lua,
                    error, out_exists, out_romfs, out_before, repo_fault, disk,
                    hash_seed, run, first >>

\* ------------------------------------------------------------- patch_pickups
\* template_powerup_bmsad.json, as _read_template_powerup loads it: the name,
\* the two caption fields of PICKABLE and the params of its first function.
TemplatePowerup ==
    [name |-> "randomizer_powerup",
     sOnPickCaption |-> "#GUI_ITEM_ACQUIRED",
     sOnPickTankUnknownCaption |-> "#GUI_ITEM_ACQUIRED",
     params |-> ("Param1" :> [type |-> "s", value |-> "ITEM_NONE"])
                    @@ ("Param2" :> [type |-> "f", value |-> 0])
                    @@ ("Param3" :> [type |-> "s", value |-> "template3"])
                    @@ ("Param4" :> [type |-> "s", value |-> "template4"])
                    @@ ("Param5" :> [type |-> "s", value |-> "template5"])
                    @@ ("Param6" :> [type |-> "s", value |-> "template6"])
                    @@ ("Param8" :> [type |-> "s", value |-> "template8"])]

\* copy.deepcopy: a value equal to, and independent of, the template.
deepcopy(template) == template

\* item_id.replace("_MAX", "_CURRENT") on the ids the branch admits.
ReplaceMaxByCurrent(item_id) ==
    CASE item_id = "ITEM_WEAPON_MISSILE_MAX" -> "ITEM_WEAPON_MISSILE_CURRENT"
      [] item_id = "ITEM_WEAPON_POWER_BOMB_MAX" -> "ITEM_WEAPON_POWER_BOMB_CURRENT"
      [] OTHER -> item_id

SetValue(params, name, value) == [params EXCEPT ![name].value = value]

\* item_id and quantity are locals: rebinding them leaves the record of the
\* configuration as it is.
PickupRecordAfter(pickup) == pickup

\* The item id and the quantity after the if / elif on item_id.
RewrittenItemId(item_id) ==
    IF item_id = "ITEM_ENERGY_TANKS" THEN "fMaxLife" ELSE item_id

\* The energy-tank branch without the multiplication.
RewrittenQuantity_unscaled(item_id, quantity) == quantity

RewrittenQuantity(item_id, quantity) ==
    IF item_id = "ITEM_ENERGY_TANKS" THEN quantity * 100 ELSE quantity

\* The elif admitting the missile expansion alone.
ItemOverrides_missile_only(params, item_id) ==
    IF item_id = "ITEM_ENERGY_TANKS"
    THEN SetValue(SetValue(SetValue(params, "Param4", "Full"),
                           "Param5", "fCurrentLife"),
                  "Param6", "LIFE")
    ELSE IF item_id = "ITEM_WEAPON_MISSILE_MAX"
    THEN SetValue(SetValue(SetValue(params, "Param4", "Custom"),
                           "Param5", ReplaceMaxByCurrent(item_id)),
                  "Param8", "guicallbacks.OnSecondaryGunsFire")
    ELSE params

\* The params after the if / elif on item_id.
ItemOverrides(params, item_id) ==
    IF item_id = "ITEM_ENERGY_TANKS"
    THEN SetValue(SetValue(SetValue(params, "Param4", "Full"),
                           "Param5", "fCurrentLife"),
                  "Param6", "LIFE")
    ELSE IF item_id \in {"ITEM_WEAPON_MISSILE_MAX", "ITEM_WEAPON_POWER_BOMB_MAX"}
    THEN SetValue(SetValue(SetValue(params, "Param4", "Custom"),
                           "Param5", ReplaceMaxByCurrent(item_id)),
                  "Param8", "guicallbacks.OnSecondaryGunsFire")
    ELSE params

\* The test of the extra display parameter off by one.
NeedsParam13_from_one(quantity) == quantity >= 1

\* Whether the extra display parameter is written, from the quantity as it is
\* when the test runs.
NeedsParam13(quantity) == quantity > 1

\* set_custom_params after the whole block on item_id and quantity.
SetCustomParams(params, pickup) ==
    LET item_id == RewrittenItemId(pickup.item_id)
        quantity == RewrittenQuantity(pickup.item_id, pickup.quantity)
        p12 == SetValue(SetValue(ItemOverrides(params, pickup.item_id),
                                 "Param1", item_id),
                        "Param2", quantity)
    IN  IF NeedsParam13(quantity)
        THEN [k \in DOMAIN p12 \cup {"Param13"} |->
                 IF k = "Param13" THEN [type |-> "f", value |-> quantity] ELSE p12[k]]
        ELSE p12

\* new_template for the pickup at 0-based index i.
NewTemplate(template, i, pickup) ==
    LET copy == deepcopy(template)
    IN  [copy EXCEPT !.name = PowerupName(i),
                     !.sOnPickCaption = pickup.caption,
                     !.sOnPickTankUnknownCaption = pickup.caption,
                     !.params = SetCustomParams(@, pickup)]

\* copy.copy in place of copy.deepcopy: the name is set on the copy, the
\* nested PICKABLE fields and params are shared with the template.
TemplateAfterEdits_shallow_copy(template, new_template) ==
    [template EXCEPT !.sOnPickCaption = new_template.sOnPickCaption,
                     !.sOnPickTankUnknownCaption = new_template.sOnPickTankUnknownCaption,
                     !.params = new_template.params]

\* template_bmsad after the writes to new_template: the deep copy shares
\* nothing with the template, which stays as it is.
TemplateAfterEdits(template, new_template) == template

\* actor.oActorDefLink = ...; actor.pComponents.pop("LIFE", None)
\* The actor rebuilt as a bare pickup: the link and no component but PICKABLE.
RebindActor_drops_components(actor, new_path) ==
    [oActorDefLink |-> ActorDefLink(new_path),
     pComponents |-> [c \in DOMAIN actor.pComponents \cap {"PICKABLE"} |->
                          actor.pComponents[c]]]

RebindActor(actor, new_path) ==
    [oActorDefLink |-> ActorDefLink(new_path),
     pComponents |-> [c \in DOMAIN actor.pComponents \ {"LIFE"} |-> actor.pComponents[c]]]

\* Only the groups no earlier pickup of the run has touched.
DefinitionPkgs_new_only(pkgs_for_level) == pkgs_for_level \ pkgs_for_lua

\* The in_pkgs handed to add_new_asset for a synthesized definition.
DefinitionPkgs(pkgs_for_level) == pkgs_for_level

\* The container groups of the tree in one fixed order.
PkgNames == << "packs/cave.pkg", "packs/common.pkg", "packs/items.pkg", "packs/magma.pkg" >>

\* The order in which a set of group names is iterated under a hash seed.
IterationOrder(S, seed) ==
    LET base == IF seed = 0
                THEN PkgNames
                ELSE [k \in DOMAIN PkgNames |-> PkgNames[Len(PkgNames) + 1 - k]]
    IN  SelectSeq(base, LAMBDA g : g \in S)

\* ensure_present for the dependencies of a pickup, group after group, for
\* the first n groups of an order.
RECURSIVE EnsureEach(_, _, _)
EnsureEach(p, order, n) ==
    IF n = 0
    THEN p
    ELSE [EnsureEach(p, order, n - 1) EXCEPT ![order[n]] = @ \cup PickupDependencies]

\* The dependencies given to the group the iteration yields first, and to no
\* other.
EnsureDependencies_first_only(p, pkgs_for_level) ==
    EnsureEach(p, IterationOrder(pkgs_for_level, hash_seed), 1)

\* The dependency loop over pkgs_for_level, in the iteration order of the
\* set: ensure_present is idempotent, a path the pkg already holds stays as
\* it is.
EnsureDependencies(p, pkgs_for_level) ==
    LET order == IterationOrder(pkgs_for_level, hash_seed)
    IN  EnsureEach(p, order, Len(order))

\* The accumulator reset by every pickup.
AccumulatePkgs_reset(acc, pkgs_for_level) == pkgs_for_level

\* The accumulator after one pickup.
AccumulatePkgs(acc, pkgs_for_level) == acc \cup pkgs_for_level

\* template_bmsad = _read_template_powerup(); pkgs_for_lua = set()
PatchPickupsStart ==
    /\ pc = "patch_pickups"
    /\ stages' = Append(stages, "patch_pickups")
    /\ template_bmsad' = TemplatePowerup
    /\ pkgs_for_lua' = {}
    /\ loop_i' = 1
    /\ pc' = "pickups_loop"
    /\ UNCHANGED << configuration, schema_ok, assets, pkgs, memory_files, instances,
                    parse_log, get_log, repo_log, error, out_exists, out_romfs, out_before, repo_fault, disk,
                    hash_seed, run, first >>

\* One iteration of the for loop of patch_pickups.
PatchPickup ==
    /\ pc = "pickups_loop"
    /\ loop_i <= Len(configuration.pickups)
    /\ LET pickup == configuration.pickups[loop_i]
           i == loop_i - 1
           ref == pickup.pickup_actor
           pkgs_for_level == find_pkgs(pkgs, ScenarioPath(ref.scenario))
           got == get_scenario(assets, memory_files, instances, ref.scenario)
           level == got.instances[got.result]
           new_path == PowerupPath(i)
           in_pkgs == DefinitionPkgs(pkgs_for_level)
       IN  /\ pkgs_for_lua' = AccumulatePkgs(pkgs_for_lua, pkgs_for_level)
           /\ memory_files' = got.memory_files
           /\ LogGet(ScenarioPath(ref.scenario), got)
           /\ IF ~HasActor(level, ref)
              THEN /\ instances' = got.instances
                   /\ Raise([type |-> "KeyError", ref |-> ref])
                   /\ UNCHANGED << loop_i, assets, pkgs, repo_log, template_bmsad >>
              ELSE /\ assets' = put_asset(assets, new_path,
                                          [kind |-> "bmsad",
                                           data |-> NewTemplate(template_bmsad, i, pickup)])
                   /\ template_bmsad' =
                          TemplateAfterEdits(template_bmsad,
                                             NewTemplate(template_bmsad, i, pickup))
                   /\ repo_log' = Append(repo_log, AddCall(new_path, in_pkgs))
                   /\ instances' =
                          [got.instances EXCEPT ![got.result][ref.layer][ref.actor] =
                               RebindActor(@, new_path)]
                   /\ pkgs' = EnsureDependencies(add_to_pkgs(pkgs, new_path, in_pkgs),
                                                 pkgs_for_level)
                   /\ loop_i' = loop_i + 1
                   /\ UNCHANGED << pc, error >>
    /\ configuration' = [configuration EXCEPT !.pickups[loop_i] = PickupRecordAfter(@)]
    /\ UNCHANGED << schema_ok, stages,
                    out_exists, out_romfs, out_before, repo_fault, disk,
                    hash_seed, run, first >>

\* After the loop: the one add_new_asset of the shared script.
AddPowerupLua ==
    /\ pc = "pickups_loop"
    /\ loop_i > Len(configuration.pickups)
    /\ assets' = put_asset(assets, PowerupLuaPath,
                           [kind |-> "lc", code |-> "randomizer_powerup.lua"])
    /\ pkgs' = add_to_pkgs(pkgs, PowerupLuaPath, pkgs_for_lua)
    /\ repo_log' = Append(repo_log, AddCall(PowerupLuaPath, pkgs_for_lua))
    /\ pc' = "flush"
    /\ UNCHANGED << configuration, schema_ok, memory_files, instances, parse_log,
                    get_log, loop_i, template_bmsad, pkgs_for_lua, error, stages,
                    out_exists, out_romfs, out_before, repo_fault, disk,
                    hash_seed, run, first >>

\* ------------------------------------------------------- commit and export
\* The paths of memory_files in the order the dict yields them (insertion
\* order, which is the order of the instances).
FlushOrder(mf) ==
    CHOOSE s \in [1 .. Cardinality(DOMAIN mf) -> DOMAIN mf] :
        \A a, b \in DOMAIN s : a < b => mf[s[a]] < mf[s[b]]

\* The paths flush_modified_assets writes back.
FlushedPaths(mf) == DOMAIN mf

\* flush_modified_assets without the reset of memory_files.
FlushedCache_kept(mf) == mf

\* The cache after flush_modified_assets.
FlushedCache(mf) == EmptyMap

\* The assets after replace_asset(name, resource) for the first n entries.
FlushWrites(a, mf, insts, n) ==
    LET written == {FlushOrder(mf)[k] : k \in 1 .. n}
    IN  [q \in DOMAIN a \cup written |->
            IF q \in written THEN [kind |-> "brfld", data |-> insts[mf[q]]] ELSE a[q]]

FlushCalls(mf, n) == [k \in 1 .. n |-> ReplaceCall(FlushOrder(mf)[k])]

\* editor.flush_modified_assets(); a replace_asset that raises ends the loop
\* and leaves memory_files as it is.
flush_modified_assets ==
    /\ pc = "flush"
    /\ stages' = Append(stages, "flush")
    /\ LET todo == [q \in FlushedPaths(memory_files) |-> memory_files[q]]
           n == Cardinality(DOMAIN todo)
       IN  IF repo_fault = "flush" /\ n > 0
           THEN \E done \in 0 .. (n - 1) :
                    /\ assets' = FlushWrites(assets, todo, instances, done)
                    /\ repo_log' = repo_log \o FlushCalls(todo, done)
                    /\ Raise(RepositoryError)
                    /\ UNCHANGED memory_files
           ELSE /\ assets' = FlushWrites(assets, todo, instances, n)
                /\ repo_log' = repo_log \o FlushCalls(todo, n)
                /\ memory_files' = FlushedCache(memory_files)
                /\ pc' = "rmtree"
                /\ UNCHANGED error
    /\ UNCHANGED << configuration, schema_ok, pkgs, instances, parse_log, get_log,
                    loop_i, template_bmsad, pkgs_for_lua, out_exists,
                    out_romfs, out_before, repo_fault, disk,
                    hash_seed, run, first >>

\* shutil.rmtree(out_romfs): a missing directory is an error.
RmTree ==
    /\ pc = "rmtree"
    /\ stages' = Append(stages, "rmtree")
    /\ IF out_exists
       THEN /\ out_exists' = FALSE
            /\ out_romfs' = EmptyMap
            /\ pc' = "save"
            /\ UNCHANGED error
       ELSE /\ Raise([type |-> "FileNotFoundError"])
            /\ UNCHANGED << out_exists, out_romfs >>
    /\ UNCHANGED << configuration, schema_ok, assets, pkgs, memory_files, instances,
                    parse_log, get_log, repo_log, loop_i, template_bmsad,
                    pkgs_for_lua, out_before, repo_fault, disk,
                    hash_seed, run, first >>

\* The files save_modified_pkgs writes: each pkg with the assets it holds.
ExportedPkgs(a, p) ==
    [g \in DOMAIN p |-> [q \in p[g] \cap DOMAIN a |-> a[q]]]

\* editor.save_modified_pkgs(out_romfs)
SaveModifiedPkgs ==
    /\ pc = "save"
    /\ stages' = Append(stages, "save")
    /\ out_exists' = TRUE
    /\ out_romfs' = ExportedPkgs(assets, pkgs) @@ out_romfs
    /\ pc' = "done"
    /\ UNCHANGED << configuration, schema_ok, assets, pkgs, memory_files, instances,
                    parse_log, get_log, repo_log, loop_i, template_bmsad,
                    pkgs_for_lua, error, out_before, repo_fault, disk,
                    hash_seed, run, first >>

Next ==
    \/ Validate
    \/ OpenEditor
    \/ create_init_copy
    \/ ReplaceInit
    \/ PatchElevator
    \/ PatchElevatorsReturn
    \/ PatchPickupsStart
    \/ PatchPickup
    \/ AddPowerupLua
    \/ flush_modified_assets
    \/ RmTree
    \/ SaveModifiedPkgs

Spec == Init /\ [][Next]_vars

\* ------------------------------------------------------- a repeated call
\* Every record of a configuration names an actor the tree has, and every
\* warp-edit record a teleporter.
ValidConfiguration(c) ==
    /\ \A k \in DOMAIN c.elevators :
           LET ref == c.elevators[k].teleporter
           IN  /\ HasActor(DiskScene(ref.scenario), ref)
               /\ "USABLE" \in DOMAIN DiskScene(ref.scenario)[ref.layer][ref.actor].pComponents
    /\ \A k \in DOMAIN c.pickups :
           HasActor(DiskScene(c.pickups[k].pickup_actor.scenario), c.pickups[k].pickup_actor)

\* patch() called for a valid configuration on a pristine tree, no fault of
\* the repository, an output directory that exists.
InitTwice ==
    /\ pc = "validate"
    /\ configuration \in {c \in Configurations : ValidConfiguration(c)}
    /\ disk = [assets |-> DiskAssets(FALSE), pkgs |-> DiskPkgs(FALSE)]
    /\ schema_ok = TRUE
    /\ out_exists = TRUE
    /\ out_romfs \in {OldRomfs, EmptyMap}
    /\ out_romfs = EmptyMap => Len(configuration.elevators) + Len(configuration.pickups) <= 1
    /\ out_before = [exists |-> out_exists, romfs |-> out_romfs]
    /\ repo_fault = "none"
    /\ assets = EmptyMap
    /\ pkgs = EmptyMap
    /\ memory_files = EmptyMap
    /\ instances = <<>>
    /\ parse_log = <<>>
    /\ get_log = <<>>
    /\ repo_log = <<>>
    /\ loop_i = 1
    /\ template_bmsad = NoTemplate
    /\ pkgs_for_lua = {}
    /\ error = NoError
    /\ stages = <<>>
    /\ hash_seed \in HashSeeds
    /\ run = 1
    /\ first = NoRun

\* patch() called again, in a new process, with the same input tree, the
\* same configuration and the output directory the first call left.
RunAgain ==
    /\ pc = "done"
    /\ run = 1
    /\ run' = 2
    /\ first' = [repo_log |-> repo_log, assets |-> assets, pkgs |-> pkgs,
                 out_romfs |-> out_romfs]
    /\ hash_seed' \in HashSeeds
    /\ pc' = "validate"
    /\ out_before' = [exists |-> out_exists, romfs |-> out_romfs]
    /\ assets' = EmptyMap
    /\ pkgs' = EmptyMap
    /\ memory_files' = EmptyMap
    /\ instances' = <<>>
    /\ parse_log' = <<>>
    /\ get_log' = <<>>
    /\ repo_log' = <<>>
    /\ loop_i' = 1
    /\ template_bmsad' = NoTemplate
    /\ pkgs_for_lua' = {}
    /\ stages' = <<>>
    /\ UNCHANGED << configuration, schema_ok, error, out_exists, out_romfs,
                    repo_fault, disk >>

NextTwice == Next \/ RunAgain

SpecTwice == InitTwice /\ [][NextTwice]_vars

\* ------------------------------------------------------------------ claims
Range(f) == {f[k] : k \in DOMAIN f}

\* flush_modified_assets has run.
Committed == "flush" \in Range(stages) /\ error # RepositoryError

\* The 1-based positions of the pickups whose definition was synthesized.
Synthesized == {k \in DOMAIN configuration.pickups : PowerupPath(k - 1) \in DOMAIN assets}

\* C1: within one run get_parsed_asset is invoked at most once per path, and
\* every get_file call for a path returns the instance the first call for
\* that path returned.
C1_SingleParse ==
    /\ \A a, b \in DOMAIN parse_log : parse_log[a] = parse_log[b] => a = b
    /\ \A a, b \in DOMAIN get_log :
           get_log[a][1] = get_log[b][1] => get_log[a][2] = get_log[b][2]
    /\ \A p \in DOMAIN memory_files :
           \E a \in DOMAIN get_log : get_log[a] = <<p, memory_files[p]>>

\* Three get_file calls over two paths, one path read twice with another
\* path read in between.
C1_Witness ==
    \E a, b, c \in DOMAIN get_log :
        /\ a < b /\ b < c
        /\ get_log[a][1] = get_log[c][1]
        /\ get_log[b][1] # get_log[a][1]

\* The last warp edit of an actor, and the last pickup edit of an actor.
LastElevatorOf(k) ==
    \A j \in DOMAIN configuration.elevators :
        configuration.elevators[j].teleporter = configuration.elevators[k].teleporter => j <= k

LastPickupOf(k) ==
    \A j \in DOMAIN configuration.pickups :
        configuration.pickups[j].pickup_actor = configuration.pickups[k].pickup_actor => j <= k

SameSceneEdits ==
    {<<e, k>> \in (DOMAIN configuration.elevators) \X (DOMAIN configuration.pickups) :
         configuration.elevators[e].teleporter.scenario
             = configuration.pickups[k].pickup_actor.scenario}

\* C2: when a warp edit and a pickup edit of one run target the same scene,
\* the scene written back at commit carries the warp's destination and the
\* pickup's definition link, and the pickup's actor has lost LIFE.
C2_CrossEditVisibility ==
    Committed =>
        \A ek \in SameSceneEdits :
            LET elevator == configuration.elevators[ek[1]]
                pickup == configuration.pickups[ek[2]]
                scene == assets[ScenarioPath(elevator.teleporter.scenario)].data
                warped == scene[elevator.teleporter.layer][elevator.teleporter.actor]
                picked == scene[pickup.pickup_actor.layer][pickup.pickup_actor.actor]
            IN  /\ LastElevatorOf(ek[1]) =>
                       /\ warped.pComponents["USABLE"].sScenarioName
                              = elevator.destination.scenario
                       /\ warped.pComponents["USABLE"].sTargetSpawnPoint
                              = elevator.destination.actor
                /\ LastPickupOf(ek[2]) =>
                       /\ picked.oActorDefLink = ActorDefLink(PowerupPath(ek[2] - 1))
                       /\ "LIFE" \notin DOMAIN picked.pComponents

\* A committed run with a warp edit that changes a destination and a pickup
\* edit of another actor, in another layer, of the same scene.
C2_Witness ==
    /\ Committed
    /\ \E ek \in SameSceneEdits :
           LET elevator == configuration.elevators[ek[1]]
               pickup == configuration.pickups[ek[2]]
           IN  /\ pickup.pickup_actor.layer # elevator.teleporter.layer
               /\ disk.assets[ScenarioPath(elevator.teleporter.scenario)].data
                      [elevator.teleporter.layer][elevator.teleporter.actor]
                      .pComponents["USABLE"].sScenarioName
                      # elevator.destination.scenario

\* The replace_asset calls of a call log.
ReplaceCalls(log, from) ==
    [k \in 1 .. (Len(log) - from) |-> log[from + k].path]

\* C3: a flush_modified_assets that returns writes every instance held in the cache back
\* under its own path, with one replace_asset per cached path and no other
\* write, and leaves the cache empty.
C3_Commit ==
    [][pc = "flush" /\ pc' # "failed" =>
          /\ \A p \in DOMAIN memory_files :
                 assets'[p] = [kind |-> "brfld", data |-> instances[memory_files[p]]]
          /\ \A p \in DOMAIN assets' \ DOMAIN memory_files :
                 p \in DOMAIN assets /\ assets'[p] = assets[p]
          /\ Len(repo_log') = Len(repo_log) + Cardinality(DOMAIN memory_files)
          /\ Range(ReplaceCalls(repo_log', Len(repo_log))) = DOMAIN memory_files
          /\ \A k \in (Len(repo_log) + 1) .. Len(repo_log') :
                 repo_log'[k].op = "replace_asset"
          /\ memory_files' = EmptyMap]_vars

\* After a commit of two cached scenes, one of them read and left as it was
\* in the repository.
C3_Witness ==
    /\ Committed
    /\ memory_files = EmptyMap
    /\ Cardinality({p \in Range(get_log) : TRUE}) >= 2
    /\ \A s \in Scenarios : \E a \in DOMAIN get_log : get_log[a][1] = ScenarioPath(s)
    /\ \E s \in Scenarios : assets[ScenarioPath(s)] = disk.assets[ScenarioPath(s)]

\* The stage an error comes from.
FailedStage ==
    CASE error.type = "ValidationError" -> "validate"
      [] error.type = "ValueError" -> "patch_elevators"
      [] error.type = "KeyError" ->
             IF "patch_pickups" \in Range(stages) THEN "patch_pickups" ELSE "patch_elevators"
      [] error.type = "FileNotFoundError" -> "rmtree"
      [] OTHER -> repo_fault

\* C4: a failed stage ends the run: no later stage runs, the output location
\* is neither cleared nor written, and the source tree is as it was.
C4_AbortBeforeExport ==
    error # NoError =>
        /\ pc = "failed"
        /\ "save" \notin Range(stages)
        /\ error.type # "FileNotFoundError" => "rmtree" \notin Range(stages)
        /\ stages[Len(stages)] = FailedStage
        /\ out_exists = out_before.exists
        /\ out_romfs = out_before.romfs
        /\ \A k \in DOMAIN stages : \A j \in DOMAIN stages : stages[k] = stages[j] => k = j

\* A run that failed in a patcher, after the repository was changed in
\* memory, with a previous export at the output location.
C4_Witness ==
    /\ pc = "failed"
    /\ error.type \in {"ValueError", "KeyError"}
    /\ assets # disk.assets
    /\ out_exists
    /\ out_romfs = OldRomfs

\* The cached instance of a scene, and an actor of the input tree.
CachedScene(scenario) == instances[memory_files[ScenarioPath(scenario)]]
DiskActor(ref) == disk.assets[ScenarioPath(ref.scenario)].data[ref.layer][ref.actor]

OutputAsBefore ==
    /\ out_exists = out_before.exists
    /\ out_romfs = out_before.romfs

\* C5 as stated: a warp-edit record whose actor has no USABLE component
\* raises an error and leaves the cache and the output as they were when the
\* warp patcher started, when the cache was empty.
C5_ZeroCacheMutation ==
    error.type = "ValueError" =>
        /\ memory_files = EmptyMap
        /\ instances = <<>>
        /\ OutputAsBefore

\* C5 as amended: the error names the actor reference and ends the run before
\* commit and export, so the repository's scenes, the output and the
\* offending actor are unchanged; the cache, empty when the warp patcher
\* starts, holds the scenes of the offending and the preceding records with
\* the destinations of the preceding records written.
C5_NotTeleporterAborts ==
    /\ pc = "patch_elevators" /\ loop_i = 1 => memory_files = EmptyMap /\ instances = <<>>
    /\ error.type = "ValueError" =>
           LET ref == configuration.elevators[loop_i].teleporter
           IN  /\ pc = "failed"
               /\ error.ref = ref
               /\ ~Committed
               /\ OutputAsBefore
               /\ \A s \in Scenarios :
                      assets[ScenarioPath(s)] = disk.assets[ScenarioPath(s)]
               /\ CachedScene(ref.scenario)[ref.layer][ref.actor] = DiskActor(ref)
               /\ DOMAIN memory_files =
                      {ScenarioPath(configuration.elevators[j].teleporter.scenario) :
                           j \in 1 .. loop_i}
               /\ \A j \in 1 .. (loop_i - 1) :
                      LET prev == configuration.elevators[j]
                          usable == CachedScene(prev.teleporter.scenario)
                                        [prev.teleporter.layer][prev.teleporter.actor]
                                        .pComponents["USABLE"]
                      IN  (\A m \in (j + 1) .. (loop_i - 1) :
                               configuration.elevators[m].teleporter # prev.teleporter)
                              => /\ usable.sScenarioName = prev.destination.scenario
                                 /\ usable.sTargetSpawnPoint = prev.destination.actor

\* The offending record follows a valid record that changed a destination in
\* the cache.
C5_Witness ==
    /\ error.type = "ValueError"
    /\ loop_i = 2
    /\ LET prev == configuration.elevators[1].teleporter
       IN  CachedScene(prev.scenario)[prev.layer][prev.actor] # DiskActor(prev)

\* patch_pickups has returned.
PickupsPatched ==
    \/ pc \in {"flush", "rmtree", "save", "done"}
    \/ pc = "failed" /\ "flush" \in Range(stages)

PickupScene(k) == ScenarioPath(configuration.pickups[k].pickup_actor.scenario)

\* C6: after patch_pickups, every container group that references the scene
\* of pickup i holds randomizer_powerup_<i>.bmsad, base.bmsat, the itemsphere
\* timeline and the nine model dependencies.
C6_GroupCoverage ==
    PickupsPatched =>
        \A k \in DOMAIN configuration.pickups :
            \A g \in find_pkgs(pkgs, PickupScene(k)) :
                /\ PowerupPath(k - 1) \in pkgs[g]
                /\ "system/animtrees/base.bmsat" \in pkgs[g]
                /\ "actors/items/itemsphere/charclasses/timeline.bmsas" \in pkgs[g]
                /\ \A d \in 1 .. 9 : model_dependencies[d] \in pkgs[g]
                /\ pc = "done" => PowerupPath(k - 1) \in DOMAIN out_romfs[g]

\* Two pickups share a scene that two container groups reference.
C6_Witness ==
    /\ PickupsPatched
    /\ \E k, j \in DOMAIN configuration.pickups :
           /\ k # j
           /\ PickupScene(k) = PickupScene(j)
           /\ Cardinality(find_pkgs(pkgs, PickupScene(k))) >= 2

\* The positions of the add_new_asset calls of the shared script.
LuaCalls == {c \in DOMAIN repo_log : repo_log[c].path = PowerupLuaPath}

\* C7: the shared script is inserted exactly once per run of patch_pickups,
\* after the last pickup, into the union of the container groups referencing
\* the pickups' scenes; the accumulator holds the union of the pickups done.
C7_SharedScriptOnce ==
    /\ Cardinality(LuaCalls) = IF PickupsPatched THEN 1 ELSE 0
    /\ \A c \in LuaCalls :
           /\ repo_log[c].op = "add_new_asset"
           /\ repo_log[c].in_pkgs =
                  UNION {find_pkgs(pkgs, PickupScene(k)) : k \in DOMAIN configuration.pickups}
           /\ \A k \in DOMAIN configuration.pickups :
                  \E m \in 1 .. (c - 1) : repo_log[m].path = PowerupPath(k - 1)
    /\ pc = "pickups_loop" =>
           pkgs_for_lua = UNION {find_pkgs(pkgs, PickupScene(k)) : k \in 1 .. (loop_i - 1)}

\* Two pickups in scenes of different container groups: the script's groups
\* are more than either scene's.
C7_Witness ==
    /\ PickupsPatched
    /\ Len(configuration.pickups) = 2
    /\ \E c \in LuaCalls :
           \A k \in DOMAIN configuration.pickups :
               /\ find_pkgs(pkgs, PickupScene(k)) # {}
               /\ find_pkgs(pkgs, PickupScene(k)) # repo_log[c].in_pkgs

\* The params of the definition synthesized for the pickup at position k.
ParamsOf(k) == assets[PowerupPath(k - 1)].data.params

\* C8 as stated: a configured quantity <= 1 gives no parameter 13, for
\* every item id; a configured quantity > 1 gives parameter 13, numeric and
\* equal to parameter 2.
C8_ConfiguredQuantityRule ==
    \A k \in Synthesized :
        IF configuration.pickups[k].quantity <= 1
        THEN "Param13" \notin DOMAIN ParamsOf(k)
        ELSE /\ "Param13" \in DOMAIN ParamsOf(k)
             /\ ParamsOf(k)["Param13"] = [type |-> "f", value |-> ParamsOf(k)["Param2"].value]

\* C8 as amended: the rule reads the rewritten quantity, which is parameter
\* 2: 100 times the configured one for ITEM_ENERGY_TANKS, the configured one
\* otherwise.  Parameter 13 is absent when that is <= 1, and present, numeric
\* and equal to it when it is > 1.
C8_RewrittenQuantityRule ==
    \A k \in Synthesized :
        LET pickup == configuration.pickups[k]
            rewritten == IF pickup.item_id = "ITEM_ENERGY_TANKS"
                         THEN 100 * pickup.quantity ELSE pickup.quantity
        IN  /\ ParamsOf(k)["Param2"].value = rewritten
            /\ IF rewritten <= 1
               THEN "Param13" \notin DOMAIN ParamsOf(k)
               ELSE /\ "Param13" \in DOMAIN ParamsOf(k)
                    /\ ParamsOf(k)["Param13"] = [type |-> "f", value |-> rewritten]

\* One energy tank, whose definition has parameter 13, and in the same run
\* one generic item, whose definition has none.
C8_Witness ==
    \E k, j \in Synthesized :
        /\ configuration.pickups[k].item_id = "ITEM_ENERGY_TANKS"
        /\ configuration.pickups[k].quantity = 1
        /\ "Param13" \in DOMAIN ParamsOf(k)
        /\ configuration.pickups[j].item_id = "ITEM_FLOOR_SLIDE"
        /\ configuration.pickups[j].quantity = 1
        /\ "Param13" \notin DOMAIN ParamsOf(j)

\* C9: an ITEM_ENERGY_TANKS pickup of quantity q gets parameter 1 = fMaxLife,
\* parameter 2 = q * 100 and parameters 4, 5, 6 = Full, fCurrentLife, LIFE;
\* no step changes the configuration.
C9_EnergyTankRewrite ==
    /\ [](\A k \in Synthesized :
              configuration.pickups[k].item_id = "ITEM_ENERGY_TANKS" =>
                  /\ ParamsOf(k)["Param1"].value = "fMaxLife"
                  /\ ParamsOf(k)["Param2"].value = configuration.pickups[k].quantity * 100
                  /\ ParamsOf(k)["Param4"].value = "Full"
                  /\ ParamsOf(k)["Param5"].value = "fCurrentLife"
                  /\ ParamsOf(k)["Param6"].value = "LIFE")
    /\ [][configuration' = configuration]_vars

\* The example of the specification: quantity 2 gives parameter 2 = 200.
C9_Witness ==
    \E k \in Synthesized :
        /\ configuration.pickups[k].item_id = "ITEM_ENERGY_TANKS"
        /\ configuration.pickups[k].quantity = 2
        /\ ParamsOf(k)["Param2"].value = 200

\* C10: the two ammo expansions keep id and quantity in parameters 1 and 2
\* and get Custom, the _CURRENT id and the secondary-fire callback in
\* parameters 4, 5 and 8; every other id but ITEM_ENERGY_TANKS keeps id and
\* quantity and the template's parameters 4, 5, 6 and 8.
C10_AmmoAndGeneric ==
    \A k \in Synthesized :
        LET pickup == configuration.pickups[k]
            params == ParamsOf(k)
        IN  pickup.item_id # "ITEM_ENERGY_TANKS" =>
                /\ params["Param1"].value = pickup.item_id
                /\ params["Param2"].value = pickup.quantity
                /\ params["Param6"].value = TemplatePowerup.params["Param6"].value
                /\ IF pickup.item_id \in {"ITEM_WEAPON_MISSILE_MAX",
                                          "ITEM_WEAPON_POWER_BOMB_MAX"}
                   THEN /\ params["Param4"].value = "Custom"
                        /\ params["Param5"].value =
                               (IF pickup.item_id = "ITEM_WEAPON_MISSILE_MAX"
                                THEN "ITEM_WEAPON_MISSILE_CURRENT"
                                ELSE "ITEM_WEAPON_POWER_BOMB_CURRENT")
                        /\ params["Param8"].value = "guicallbacks.OnSecondaryGunsFire"
                   ELSE /\ params["Param4"].value = TemplatePowerup.params["Param4"].value
                        /\ params["Param5"].value = TemplatePowerup.params["Param5"].value
                        /\ params["Param8"].value = TemplatePowerup.params["Param8"].value

\* A power-bomb expansion and a generic item synthesized in the same run.
C10_Witness ==
    \E k, j \in Synthesized :
        /\ configuration.pickups[k].item_id = "ITEM_WEAPON_POWER_BOMB_MAX"
        /\ ParamsOf(k)["Param5"].value = "ITEM_WEAPON_POWER_BOMB_CURRENT"
        /\ configuration.pickups[j].item_id = "ITEM_FLOOR_SLIDE"
        /\ ParamsOf(j)["Param4"].value = "template4"

\* The value the code writes to a parameter of the definition of a pickup
\* with this item id, or the template's value where it writes none.
OwnParam(item_id, name) ==
    CASE item_id = "ITEM_ENERGY_TANKS" /\ name = "Param4" -> "Full"
      [] item_id = "ITEM_ENERGY_TANKS" /\ name = "Param5" -> "fCurrentLife"
      [] item_id = "ITEM_ENERGY_TANKS" /\ name = "Param6" -> "LIFE"
      [] item_id = "ITEM_WEAPON_MISSILE_MAX" /\ name = "Param4" -> "Custom"
      [] item_id = "ITEM_WEAPON_MISSILE_MAX" /\ name = "Param5" -> "ITEM_WEAPON_MISSILE_CURRENT"
      [] item_id = "ITEM_WEAPON_MISSILE_MAX" /\ name = "Param8" -> "guicallbacks.OnSecondaryGunsFire"
      [] item_id = "ITEM_WEAPON_POWER_BOMB_MAX" /\ name = "Param4" -> "Custom"
      [] item_id = "ITEM_WEAPON_POWER_BOMB_MAX" /\ name = "Param5" -> "ITEM_WEAPON_POWER_BOMB_CURRENT"
      [] item_id = "ITEM_WEAPON_POWER_BOMB_MAX" /\ name = "Param8" -> "guicallbacks.OnSecondaryGunsFire"
      [] OTHER -> TemplatePowerup.params[name].value

\* C11: the template loaded by patch_pickups is never mutated, and the
\* definition of pickup i has its own name, its own caption, the parameters
\* 4, 5, 6, 8 of its own item id and parameter 13 by its own quantity alone,
\* whatever the earlier pickups wrote.
C11_TemplateIndependence ==
    /\ template_bmsad \in {NoTemplate, TemplatePowerup}
    /\ pc = "pickups_loop" => template_bmsad = TemplatePowerup
    /\ \A k \in Synthesized :
           LET pickup == configuration.pickups[k]
               def == assets[PowerupPath(k - 1)].data
           IN  /\ def.name = "randomizer_powerup_" \o ToString(k - 1)
               /\ def.sOnPickCaption = pickup.caption
               /\ def.sOnPickTankUnknownCaption = pickup.caption
               /\ \A name \in {"Param4", "Param5", "Param6", "Param8"} :
                      def.params[name].value = OwnParam(pickup.item_id, name)
               /\ def.params["Param3"] = TemplatePowerup.params["Param3"]
               /\ "Param13" \in DOMAIN def.params <=>
                      (IF pickup.item_id = "ITEM_ENERGY_TANKS"
                       THEN pickup.quantity * 100 ELSE pickup.quantity) > 1

\* An energy tank with parameter 13 and the Full mode, followed by a generic
\* item of quantity 1 whose definition has neither.
C11_Witness ==
    /\ 1 \in Synthesized /\ 2 \in Synthesized
    /\ configuration.pickups[1].item_id = "ITEM_ENERGY_TANKS"
    /\ "Param13" \in DOMAIN ParamsOf(1)
    /\ ParamsOf(1)["Param4"].value = "Full"
    /\ configuration.pickups[2].item_id = "ITEM_FLOOR_SLIDE"
    /\ configuration.pickups[2].caption # configuration.pickups[1].caption
    /\ "Param13" \notin DOMAIN ParamsOf(2)
    /\ ParamsOf(2)["Param4"].value = "template4"

\* create_init_copy has returned.
BackupStageDone == pc = "replace_init" \/ "replace_init" \in Range(stages)

\* The positions of the calls of the repository log that target a path.
CallsOn(log, op, path) == {k \in DOMAIN log : log[k].op = op /\ log[k].path = path}

\* C12: once create_init_copy has returned, a tree that had no backup holds
\* one with the content and the container groups the init script had in the
\* input tree, inserted before the init script was overwritten; a tree that
\* already had a backup keeps its content and groups, and nothing was
\* inserted for it.
C12_IdempotentBackup ==
    BackupStageDone =>
        IF OriginalInitPath \in DOMAIN disk.assets
        THEN /\ assets[OriginalInitPath] = disk.assets[OriginalInitPath]
             /\ find_pkgs(pkgs, OriginalInitPath) = find_pkgs(disk.pkgs, OriginalInitPath)
             /\ CallsOn(repo_log, "add_new_asset", OriginalInitPath) = {}
        ELSE /\ assets[OriginalInitPath] = disk.assets[InitPath]
             /\ find_pkgs(pkgs, OriginalInitPath) = find_pkgs(disk.pkgs, InitPath)
             /\ Cardinality(CallsOn(repo_log, "add_new_asset", OriginalInitPath)) = 1
             /\ \A a \in CallsOn(repo_log, "add_new_asset", OriginalInitPath) :
                    \A r \in CallsOn(repo_log, "replace_asset", InitPath) : a < r

\* A finished run against a tree that already held a backup: the init script
\* is overwritten and the backup is the one of the earlier run.
C12_Witness ==
    /\ pc = "done"
    /\ OriginalInitPath \in DOMAIN disk.assets
    /\ CallsOn(repo_log, "replace_asset", InitPath) # {}
    /\ assets[OriginalInitPath].code = "backup of an earlier run"

\* C13: whatever the output's romfs directory was before the run (absent,
\* empty or a previous tree), the export stage does not fail, and a finished
\* run leaves exactly the newly exported tree there.
C13_FullReplaceAnyPrior ==
    /\ pc = "failed" => FailedStage # "rmtree"
    /\ pc = "done" => /\ out_exists
                      /\ out_romfs = ExportedPkgs(assets, pkgs)

\* The scene a get_scenario call of this step hands out, as it is before the step.
SceneBefore(path) ==
    IF path \in DOMAIN memory_files
    THEN instances[memory_files[path]]
    ELSE assets[path].data

\* One successful warp edit, seen as a step: what it writes and what it leaves.
WarpEditFrame ==
    (pc = "patch_elevators" /\ loop_i' = loop_i + 1) =>
        LET elevator == configuration.elevators[loop_i]
            ref == elevator.teleporter
            path == ScenarioPath(ref.scenario)
            before == SceneBefore(path)
            after == instances'[memory_files'[path]]
            usable_before == before[ref.layer][ref.actor].pComponents["USABLE"]
            usable_after == after[ref.layer][ref.actor].pComponents["USABLE"]
        IN  /\ usable_after.sScenarioName = elevator.destination.scenario
            /\ usable_after.sTargetSpawnPoint = elevator.destination.actor
            /\ DOMAIN usable_after = DOMAIN usable_before
            /\ \A f \in DOMAIN usable_before \ {"sScenarioName", "sTargetSpawnPoint"} :
                   usable_after[f] = usable_before[f]
            /\ after[ref.layer][ref.actor].oActorDefLink =
                   before[ref.layer][ref.actor].oActorDefLink
            /\ DOMAIN after[ref.layer][ref.actor].pComponents =
                   DOMAIN before[ref.layer][ref.actor].pComponents
            /\ \A c \in DOMAIN before[ref.layer][ref.actor].pComponents \ {"USABLE"} :
                   after[ref.layer][ref.actor].pComponents[c] =
                       before[ref.layer][ref.actor].pComponents[c]
            /\ DOMAIN after = DOMAIN before
            /\ \A l \in DOMAIN before :
                   /\ DOMAIN after[l] = DOMAIN before[l]
                   /\ \A a \in DOMAIN before[l] :
                          (l # ref.layer \/ a # ref.actor) => after[l][a] = before[l][a]
            /\ \A q \in DOMAIN memory_files : memory_files'[q] = memory_files[q]
            /\ DOMAIN memory_files' = DOMAIN memory_files \cup {path}
            /\ \A j \in DOMAIN instances :
                   j # memory_files'[path] => instances'[j] = instances[j]
            /\ assets' = assets
            /\ pkgs' = pkgs
            /\ repo_log' = repo_log

\* C14: a successful warp edit overwrites the destination scenario and the
\* destination spawn point of the source actor's USABLE component and nothing
\* else: the component's other fields, the actor's other components, the
\* other actors and scenes of the cache and the repository are unchanged.
C14_WarpEditFrame == [][WarpEditFrame]_vars

\* After the warp stage a teleporter of the cache points to a destination
\* other than the one on disk and still has its platform entity and model.
C14_Witness ==
    /\ pc = "pickups_loop"
    /\ \E k \in DOMAIN configuration.elevators :
           LET elevator == configuration.elevators[k]
               ref == elevator.teleporter
               actor == CachedScene(ref.scenario)[ref.layer][ref.actor]
           IN  /\ actor.pComponents["USABLE"].sScenarioName = elevator.destination.scenario
               /\ actor.pComponents["USABLE"].sTargetSpawnPoint = elevator.destination.actor
               /\ actor.pComponents["USABLE"].sScenarioName #
                      DiskActor(ref).pComponents["USABLE"].sScenarioName
               /\ actor.pComponents["USABLE"].sUsableEntity = "elevator_platform"
               /\ actor.pComponents["MODELUPDATER"] = DiskActor(ref).pComponents["MODELUPDATER"]

\* The cache patch_elevators leaves after the first n records of a list, all
\* of them teleporters, starting from the empty cache of a new editor.
RECURSIVE WarpsApplied(_, _, _)
WarpsApplied(a, list, n) ==
    IF n = 0
    THEN [memory_files |-> EmptyMap, instances |-> <<>>]
    ELSE LET before == WarpsApplied(a, list, n - 1)
         IN  WarpStep(a, before.memory_files, before.instances, list[n])

\* What a cache holds: path -> the scene cached under it.
CacheContent(cache) ==
    [path \in DOMAIN cache.memory_files |-> cache.instances[cache.memory_files[path]]]

Orders(n) ==
    {f \in [1 .. n -> 1 .. n] : \A i, j \in 1 .. n : i # j => f[i] # f[j]}

Permuted(list, f) == [k \in 1 .. Len(list) |-> list[f[k]]]

\* The loop of patch_elevators has processed every record without error.
WarpsDone == pc = "patch_elevators" /\ loop_i = Len(configuration.elevators) + 1

\* Two records edit the same source actor and give it different destinations.
ConflictingWarps ==
    \E i, j \in DOMAIN configuration.elevators :
        /\ configuration.elevators[i].teleporter = configuration.elevators[j].teleporter
        /\ configuration.elevators[i].destination # configuration.elevators[j].destination

\* Every permutation of the records leaves the cache the run has left.
AllOrdersSameCache ==
    \A f \in Orders(Len(configuration.elevators)) :
        CacheContent(WarpsApplied(assets, Permuted(configuration.elevators, f),
                                  Len(configuration.elevators)))
            = CacheContent([memory_files |-> memory_files, instances |-> instances])

\* C15 as stated: for every list of valid warp-edit records, every
\* permutation of the list leaves the same final cache.
C15_AnyOrderSameCache == WarpsDone => AllOrdersSameCache

\* C15 as amended: when no two records give the same source actor different
\* destinations, every permutation of the list leaves the same final cache,
\* in which each record's actor has the record's destination; when two
\* records do, the later record of the list decides.
C15_OrderCommutativeWithoutConflict ==
    WarpsDone =>
        /\ ~ConflictingWarps => AllOrdersSameCache
        /\ \A k \in DOMAIN configuration.elevators :
               LET elevator == configuration.elevators[k]
                   ref == elevator.teleporter
                   usable == CachedScene(ref.scenario)[ref.layer][ref.actor]
                                 .pComponents["USABLE"]
               IN  LastElevatorOf(k) =>
                       /\ usable.sScenarioName = elevator.destination.scenario
                       /\ usable.sTargetSpawnPoint = elevator.destination.actor

\* Two records on teleporters of different scenes, both destinations changed,
\* have been processed: the order of the records decides which scene is
\* parsed first and nothing else.
C15_Witness ==
    /\ WarpsDone
    /\ ~ConflictingWarps
    /\ Len(configuration.elevators) = 2
    /\ configuration.elevators[1].teleporter.scenario = "s020_magma"
    /\ configuration.elevators[2].teleporter.scenario = "s010_cave"
    /\ CachedScene("s010_cave")["default"]["elevator_a"] #
           DiskActor(configuration.elevators[2].teleporter)
    /\ memory_files[ScenarioPath("s020_magma")] = 1

\* The stages of patch in the order of its statements, for a configuration.
ExpectedStages(c) ==
    << "validate", "open", "create_init_copy", "replace_init" >>
        \o (IF c.has_elevators THEN << "patch_elevators" >> ELSE << >>)
        \o << "patch_pickups", "flush", "rmtree", "save" >>

IsPrefix(s, t) == Len(s) <= Len(t) /\ \A k \in DOMAIN s : s[k] = t[k]

\* What holds of the stages run so far in every state.
StageOrder ==
    /\ IsPrefix(stages, ExpectedStages(configuration))
    /\ pc = "done" => stages = ExpectedStages(configuration)
    /\ "open" \notin Range(stages) =>
           /\ assets = EmptyMap /\ pkgs = EmptyMap /\ repo_log = <<>>
           /\ memory_files = EmptyMap /\ instances = <<>>
           /\ OutputAsBefore
    /\ "patch_elevators" \in Range(stages) => configuration.has_elevators
    /\ \A a \in CallsOn(repo_log, "add_new_asset", OriginalInitPath) :
           \A r \in CallsOn(repo_log, "replace_asset", InitPath) : a < r
    /\ "flush" \notin Range(stages) =>
           /\ OutputAsBefore
           /\ \A k \in DOMAIN repo_log :
                  repo_log[k].op = "replace_asset" => repo_log[k].path = InitPath

\* What holds of every step: scenes are fetched and edited by the two
\* patchers only, warp edits before pickup edits, and none after the commit
\* has started; the output changes only after the commit.
StageSteps ==
    /\ (get_log' # get_log \/ instances' # instances) =>
           /\ pc \in {"patch_elevators", "pickups_loop"}
           /\ "flush" \notin Range(stages)
           /\ pc = "patch_elevators" => "patch_pickups" \notin Range(stages)
    /\ pc = "flush" =>
           /\ loop_i > Len(configuration.pickups)
           /\ PowerupLuaPath \in DOMAIN assets
    /\ (out_romfs' # out_romfs \/ out_exists' # out_exists) =>
           /\ pc \in {"rmtree", "save"}
           /\ Committed
           /\ memory_files = EmptyMap

\* C17: validation comes before the repository is opened or anything is
\* changed; the backup of the init script before its overwrite; the warp
\* patcher, run only with an elevators key, before the pickup patcher; the
\* commit once, after every warp and pickup edit; clearing and export after
\* the commit only; and no scene is fetched from the cache after the commit.
C17_StageOrdering == []StageOrder /\ [][StageSteps]_vars

\* A finished run with an elevators key, a warp edit and a pickup edit.
C17_Witness ==
    /\ pc = "done"
    /\ configuration.has_elevators
    /\ Len(configuration.elevators) >= 1
    /\ Len(configuration.pickups) >= 1
    /\ stages = << "validate", "open", "create_init_copy", "replace_init",
                   "patch_elevators", "patch_pickups", "flush", "rmtree", "save" >>
    /\ Len(get_log) >= 2

\* The states of a scene the program holds: the cached instance and the
\* repository's asset.
SceneViews(s) ==
    (IF ScenarioPath(s) \in DOMAIN memory_files THEN {CachedScene(s)} ELSE {})
        \cup (IF ScenarioPath(s) \in DOMAIN assets
              THEN {assets[ScenarioPath(s)].data} ELSE {})

\* C18: every definition link that differs from the input tree's is
\* actordef:<path> with the path of index i of a pickup record on that actor,
\* the resource of that path is in the repository, inserted once, and in
\* every container group that references the actor's scene; distinct indices
\* give distinct paths and each synthesized definition is still the one of
\* its own index.
C18_NoDanglingLink ==
    /\ \A s \in Scenarios : \A scene \in SceneViews(s) :
           \A l \in DOMAIN scene : \A a \in DOMAIN scene[l] :
               scene[l][a].oActorDefLink # disk.assets[ScenarioPath(s)].data[l][a].oActorDefLink
                   => \E k \in DOMAIN configuration.pickups :
                          LET path == "actors/items/randomizer_powerup/charclasses/randomizer_powerup_"
                                          \o ToString(k - 1) \o ".bmsad"
                          IN  /\ configuration.pickups[k].pickup_actor =
                                     [scenario |-> s, layer |-> l, actor |-> a]
                              /\ scene[l][a].oActorDefLink = "actordef:" \o path
                              /\ path \in DOMAIN assets
                              /\ assets[path].kind = "bmsad"
                              /\ Cardinality(CallsOn(repo_log, "add_new_asset", path)) = 1
                              /\ \A g \in find_pkgs(pkgs, ScenarioPath(s)) : path \in pkgs[g]
    /\ \A i, j \in 0 .. MaxPickups : i # j => PowerupPath(i) # PowerupPath(j)
    /\ \A k \in Synthesized :
           assets[PowerupPath(k - 1)].data.name = "randomizer_powerup_" \o ToString(k - 1)
    /\ \A k \in DOMAIN repo_log : \A m \in DOMAIN repo_log :
           (k # m /\ repo_log[k].op = "add_new_asset" /\ repo_log[m].op = "add_new_asset")
               => repo_log[k].path # repo_log[m].path

\* Two pickups of different scenes are rebound, each to the definition of its
\* own index, and the scenes are committed.
C18_Witness ==
    /\ pc = "done"
    /\ Len(configuration.pickups) = 2
    /\ configuration.pickups[1].pickup_actor.scenario #
           configuration.pickups[2].pickup_actor.scenario
    /\ \A k \in {1, 2} :
           LET ref == configuration.pickups[k].pickup_actor
           IN  assets[ScenarioPath(ref.scenario)].data[ref.layer][ref.actor].oActorDefLink
                   = ActorDefLink(PowerupPath(k - 1))

\* One successful pickup edit, seen as a step: what it does to the cache.
PickupEditFrame ==
    (pc = "pickups_loop" /\ loop_i' = loop_i + 1) =>
        LET ref == configuration.pickups[loop_i].pickup_actor
            path == ScenarioPath(ref.scenario)
            before == SceneBefore(path)
            after == instances'[memory_files'[path]]
            actor_before == before[ref.layer][ref.actor]
            actor_after == after[ref.layer][ref.actor]
        IN  /\ "LIFE" \notin DOMAIN actor_after.pComponents
            /\ actor_after.oActorDefLink =
                   "actordef:actors/items/randomizer_powerup/charclasses/randomizer_powerup_"
                       \o ToString(loop_i - 1) \o ".bmsad"
            /\ DOMAIN actor_after.pComponents = DOMAIN actor_before.pComponents \ {"LIFE"}
            /\ \A c \in DOMAIN actor_before.pComponents \ {"LIFE"} :
                   actor_after.pComponents[c] = actor_before.pComponents[c]
            /\ DOMAIN after = DOMAIN before
            /\ \A l \in DOMAIN before :
                   /\ DOMAIN after[l] = DOMAIN before[l]
                   /\ \A a \in DOMAIN before[l] :
                          (l # ref.layer \/ a # ref.actor) => after[l][a] = before[l][a]
            /\ \A q \in DOMAIN memory_files : memory_files'[q] = memory_files[q]
            /\ DOMAIN memory_files' = DOMAIN memory_files \cup {path}
            /\ \A j \in DOMAIN instances :
                   j # memory_files'[path] => instances'[j] = instances[j]
            /\ \A s \in Scenarios : assets'[ScenarioPath(s)] = assets[ScenarioPath(s)]

\* C19: a pickup edit leaves the target actor without LIFE component, whether
\* or not it had one, with the new path as its definition link and its other
\* components unchanged; no other actor of the scene and no other cached
\* scene is changed.
C19_PickupEditFrame == [][PickupEditFrame]_vars

\* Both kinds of target have been edited: item_tank, which had a LIFE
\* component, and item_hidden, which had none; both keep PICKABLE.
C19_Witness ==
    /\ pc = "flush"
    /\ Len(configuration.pickups) = 2
    /\ configuration.pickups[1].pickup_actor.actor = "item_tank"
    /\ configuration.pickups[2].pickup_actor.actor = "item_hidden"
    /\ "LIFE" \in DOMAIN DiskActor(configuration.pickups[1].pickup_actor).pComponents
    /\ "LIFE" \notin DOMAIN DiskActor(configuration.pickups[2].pickup_actor).pComponents
    /\ \A k \in {1, 2} :
           LET ref == configuration.pickups[k].pickup_actor
               actor == CachedScene(ref.scenario)[ref.layer][ref.actor]
           IN  /\ DOMAIN actor.pComponents = {"PICKABLE"}
               /\ actor.oActorDefLink = ActorDefLink(PowerupPath(k - 1))

\* C16: a repeated run on the same pristine input with the same
\* configuration, whatever the hash seeds of the two processes, makes the
\* repository calls of the first run, with the same paths and container-group
\* sets, and ends with the same contents, the same groups and the same
\* output.
C16_Determinism ==
    run = 2 =>
        /\ IsPrefix(repo_log, first.repo_log)
        /\ DOMAIN assets \subseteq DOMAIN first.assets
        /\ \A g \in DOMAIN pkgs : pkgs[g] \subseteq first.pkgs[g]
        /\ pc = "rmtree" => assets = first.assets /\ pkgs = first.pkgs
        /\ pc = "done" =>
               /\ repo_log = first.repo_log
               /\ assets = first.assets
               /\ pkgs = first.pkgs
               /\ out_romfs = first.out_romfs

\* The repeated run, under the other hash seed than the first one would have
\* had to iterate two groups in the other order, has exported two pickups of
\* a scene held by two groups.
C16_Witness ==
    /\ run = 2
    /\ pc = "done"
    /\ hash_seed = 1
    /\ Len(configuration.pickups) = 2
    /\ Cardinality(find_pkgs(disk.pkgs, PickupScene(1))) = 2
    /\ Cardinality(CallsOn(first.repo_log, "add_new_asset", PowerupPath(1))) = 1
    /\ out_romfs = ExportedPkgs(assets, pkgs)

====
